---- MODULE Spec2Model ----
(***************************************************************************)
(* Library Organizer Engine (OrganizerService.ts) as a state machine.      *)
(*                                                                         *)
(* State: the file tree (inbox files, library audio files, library         *)
(* directories, exported files), the persisted inventory library_db.json   *)
(* and the playlist files of <library>/Playlists.                          *)
(*                                                                         *)
(* A path is the sequence of its segments: /lib/A/X/f.mp3 is               *)
(* <<"lib","A","X","f.mp3">>.  A playlist file is the sequence of its      *)
(* lines as content.split("\n") gives them; a line is the sequence of the  *)
(* "/"-separated segments of its text, the empty line is <<>>, the header  *)
(* line is <<"#EXTM3U">>.  The service runs on POSIX (path.sep = "/"), so  *)
(* .split(path.sep).join("/") leaves the text as it is, and the lines the  *)
(* service writes carry no backslash and no outer blank: trim() and the    *)
(* backslash replacement return them unchanged.                            *)
(***************************************************************************)
EXTENDS Integers, Sequences, FiniteSets, TLC

VARIABLES inboxFiles, libFiles, libDirs, destFiles, dbExists, inventory,
          playlists, scanned, last, calls, procs

vars == <<inboxFiles, libFiles, libDirs, destFiles, dbExists, inventory,
          playlists, scanned, last, calls, procs>>

\* ----------------------------------------------------------------- bounds
\* Proposals in one organize request.
MaxBatch == 2
\* Inventory records a run may leave in library_db.json.
MaxInv == 3
\* Requests served in one behaviour.
MaxCalls == 4

\* -------------------------------------------------------------- constants
libraryPath == <<"lib">>
playlistDir == libraryPath \o <<"Playlists">>
destination == <<"dest">>
inboxPath == <<"inbox">>

PLAYLIST_HEADER == <<"#EXTM3U">>
MASTER == "00_Master_Library"
PRIMARY == ".m3u8"
LEGACY == ".m3u"

\* ---------------------------------------------------------- path (node:path)
dirname(p) == SubSeq(p, 1, Len(p) - 1)
basename(p) == p[Len(p)]

RECURSIVE commonLen(_, _)
commonLen(a, b) ==
    IF a = <<>> \/ b = <<>> THEN 0
    ELSE IF Head(a) # Head(b) THEN 0
    ELSE 1 + commonLen(Tail(a), Tail(b))

\* path.relative(from, to) for absolute, normalized from and to.
relative(from, to) ==
    LET k == commonLen(from, to)
    IN  [i \in 1..(Len(from) - k) |-> ".."] \o SubSeq(to, k + 1, Len(to))

RECURSIVE normalizeSegs(_, _)
normalizeSegs(acc, segs) ==
    IF segs = <<>> THEN acc
    ELSE IF Head(segs) = ".."
         THEN normalizeSegs(IF acc = <<>> THEN <<>> ELSE SubSeq(acc, 1, Len(acc) - 1),
                            Tail(segs))
         ELSE normalizeSegs(Append(acc, Head(segs)), Tail(segs))

\* path.resolve(base, rel) and path.join(base, rel), base absolute, rel relative.
resolve(base, rel) == normalizeSegs(<<>>, base \o rel)
join(base, rel) == normalizeSegs(<<>>, base \o rel)

\* The directories fs.ensureDir(dir) makes exist: dir and its ancestors.
ensureDir(dir) == {SubSeq(dir, 1, k) : k \in 1..Len(dir)}

\* ------------------------------------------------------- playlist file text
startsWithHash(l) == l # <<>> /\ l[1] = "#EXTM3U"

\* content.split("\n").filter(l => l.trim().length > 0 && !l.startsWith("#"))
\* (and the filter l && !l.startsWith("#") of addToPlaylist/appendCustomPlaylists).
entryLines(content) ==
    SelectSeq(content, LAMBDA l : l # <<>> /\ ~startsWithHash(l))

\* PLAYLIST_HEADER + lines.join("\n"), as split("\n") reads it back.
headerPlus(lines) ==
    IF lines = <<>> THEN <<PLAYLIST_HEADER, <<>>>> ELSE <<PLAYLIST_HEADER>> \o lines

RECURSIVE uniq(_, _)
\* Array.from(new Set(xs)): first occurrences, in order.
uniq(acc, xs) ==
    IF xs = <<>> THEN acc
    ELSE IF \E i \in 1..Len(acc) : acc[i] = Head(xs)
         THEN uniq(acc, Tail(xs))
         ELSE uniq(Append(acc, Head(xs)), Tail(xs))

Range(s) == {s[i] : i \in 1..Len(s)}

\* fs.outputFile(path.join(playlistDir, name + ext), content)
putFile(pls, key, content) ==
    [k \in DOMAIN pls \cup {key} |-> IF k = key THEN content ELSE pls[k]]

\* fs.remove(path.join(playlistDir, name + ext))
removeFile(pls, key) == [k \in DOMAIN pls \ {key} |-> pls[k]]

\* ------------------------------------------------------------ inbox scanner
\* s.replace(/[/\\?%*:|"<>]/g, "-").trim() on the strings of the inbox below.
clean(s) == IF s = "AC/DC" THEN "AC-DC" ELSE s

\* genre.replace(/[/\\?%*:|"<>]/g, "-") on the genres of the inbox below.
cleanGenre(g) == IF g = "R/B" THEN "R-B" ELSE g

\* no.toString().padStart(2, "0")
padStart2(n) == IF n < 10 THEN "0" \o ToString(n) ELSE ToString(n)

\* The inbox: each audio file with what music-metadata parses from it ("" and
\* 0 and <<>>: tag absent) and the bracket tokens of its top-level folder.
\* song.mp3 carries no tag at all.
InboxCatalogue ==
    { [file |-> inboxPath \o <<"[Favorites][Workout]", "a.mp3">>,
       stem |-> "a", ext |-> ".mp3", folder |-> "[Favorites][Workout]",
       tokens |-> <<"Favorites", "Workout">>,
       common |-> [title |-> "S", artist |-> "AC/DC", album |-> "X", year |-> 0,
                   no |-> 1, genre |-> <<"Rock">>]],
      [file |-> inboxPath \o <<"[00_Master_Library]", "b.mp3">>,
       stem |-> "b", ext |-> ".mp3", folder |-> "[00_Master_Library]",
       tokens |-> <<MASTER>>,
       common |-> [title |-> "S", artist |-> "AC/DC", album |-> "X", year |-> 0,
                   no |-> 1, genre |-> <<"Rock">>]],
      [file |-> inboxPath \o <<"c.mp3">>,
       stem |-> "c", ext |-> ".mp3", folder |-> "",
       tokens |-> <<>>,
       common |-> [title |-> "S", artist |-> "B", album |-> "", year |-> 0,
                   no |-> 1, genre |-> <<"R/B", "Rock">>]],
      [file |-> inboxPath \o <<"song.mp3">>,
       stem |-> "song", ext |-> ".mp3", folder |-> "",
       tokens |-> <<>>,
       common |-> [title |-> "", artist |-> "", album |-> "", year |-> 0,
                   no |-> 0, genre |-> <<>>]] }

\* folderName.match(/\[(.*?)\]/g)?.map(strip brackets) || [folderName]
extractTags(src) == IF src.tokens # <<>> THEN src.tokens ELSE <<src.folder>>

analyzeFile(src, tags) ==
    LET c == src.common
        song == [title |-> IF c.title # "" THEN c.title ELSE src.stem,
                 artist |-> IF c.artist # "" THEN c.artist ELSE "Unknown Artist",
                 album |-> IF c.album # "" THEN c.album ELSE "Unknown Album",
                 year |-> c.year,
                 trackNo |-> IF c.no # 0 THEN padStart2(c.no) ELSE "00",
                 genre |-> IF c.genre # <<>> THEN c.genre ELSE <<"Otros">>,
                 format |-> src.ext,
                 absPath |-> src.file,
                 relPath |-> <<>>]
        artistDir == clean(song.artist)
        albumDir == IF song.year # 0
                    THEN "(" \o ToString(song.year) \o ") " \o clean(song.album)
                    ELSE clean(song.album)
        fileName == song.trackNo \o " - " \o clean(song.title) \o song.format
    IN  [file |-> src.file,
         metadata |-> song,
         proposedPath |-> join(libraryPath, <<artistDir, albumDir, fileName>>),
         playlists |-> tags]

\* The ScanResult of one inbox file, as scanInbox builds it: the files of a
\* top-level folder carry the folder's tags, a top-level file carries none.
scanEntry(src) ==
    analyzeFile(src, IF src.folder # "" THEN extractTags(src) ELSE <<>>)

Proposals == {scanEntry(src) : src \in InboxCatalogue}

\* scanInbox(inboxPath) on an inbox that holds the given files.
scanInbox(files) == {scanEntry(src) : src \in {x \in InboxCatalogue : x.file \in files}}

\* The request bodies of POST /organize: up to MaxBatch distinct proposals of
\* the scan the client holds.
ProposalSeqs ==
    {s \in UNION {[1..n -> scanned] : n \in 0..MaxBatch} :
        \A i, j \in 1..Len(s) : i # j => s[i] # s[j]}

\* ---------------------------------------------------------------- organize
\* safeMove(source, dest) on the loop state st: the destination wins when it
\* exists; else its parents are made and the file is moved. fs.move rejects
\* when the source is gone: failed.
safeMove(st, source, dest) ==
    IF dest \in st.files THEN st
    ELSE IF source \notin st.inbox
         THEN [st EXCEPT !.dirs = @ \cup ensureDir(dirname(dest)), !.failed = TRUE]
         ELSE [st EXCEPT !.dirs = @ \cup ensureDir(dirname(dest)),
                         !.inbox = @ \ {source},
                         !.files = @ \cup {dest}]

\* customPlaylists: Map<string, Set<string>> in insertion order.
addHint(custom, pl, rel) ==
    IF \E i \in 1..Len(custom) : custom[i].name = pl
    THEN [i \in 1..Len(custom) |->
            IF custom[i].name = pl
            THEN [custom[i] EXCEPT !.tracks = uniq(<<>>, @ \o <<rel>>)]
            ELSE custom[i]]
    ELSE Append(custom, [name |-> pl, tracks |-> <<rel>>])

RECURSIVE addHints(_, _, _)
\* Faulty variant of addHints: the hints of the item are dropped.
addHints_none(custom, pls, rel) == custom

addHints(custom, pls, rel) ==
    IF pls = <<>> THEN custom
    ELSE addHints(addHint(custom, Head(pls), rel), Tail(pls), rel)

RECURSIVE organizeLoop(_, _)
\* for (const item of results) { safeMove; inventory.push; hints }
organizeLoop(results, st) ==
    IF results = <<>> THEN st
    ELSE LET item == Head(results)
             moved == safeMove(st, item.file, item.proposedPath)
             finalPath == item.proposedPath
             updatedSong == [item.metadata EXCEPT
                               !.absPath = finalPath,
                               !.relPath = relative(libraryPath, finalPath)]
         IN  IF moved.failed THEN moved
             ELSE organizeLoop(Tail(results),
                    [moved EXCEPT
                       !.inv = Append(@, updatedSong),
                       !.custom = addHints(@, item.playlists,
                                           relative(playlistDir, finalPath))])

\* Faulty variant of generateMasterPlaylist: lines relative to the library root.
generateMasterPlaylist_fromRoot(inv, pls) ==
    putFile(pls, <<MASTER, PRIMARY>>,
            headerPlus([i \in 1..Len(inv) |-> relative(libraryPath, inv[i].absPath)]))

generateMasterPlaylist(inv, pls) ==
    putFile(pls, <<MASTER, PRIMARY>>,
            headerPlus([i \in 1..Len(inv) |-> relative(playlistDir, inv[i].absPath)]))

\* genreMap: Map<string, string[]> in insertion order.
genreMapPush(map, g, rel) ==
    IF \E i \in 1..Len(map) : map[i].genre = g
    THEN [i \in 1..Len(map) |->
            IF map[i].genre = g THEN [map[i] EXCEPT !.tracks = Append(@, rel)]
            ELSE map[i]]
    ELSE Append(map, [genre |-> g, tracks |-> <<rel>>])

RECURSIVE genreMapSong(_, _, _)
genreMapSong(map, genres, rel) ==
    IF genres = <<>> THEN map
    ELSE genreMapSong(genreMapPush(map, Head(genres), rel), Tail(genres), rel)

RECURSIVE genreMapOf(_, _)
genreMapOf(map, inv) ==
    IF inv = <<>> THEN map
    ELSE genreMapOf(genreMapSong(map, Head(inv).genre,
                                 relative(playlistDir, Head(inv).absPath)),
                    Tail(inv))

RECURSIVE writeGenreFiles(_, _)
writeGenreFiles(map, pls) ==
    IF map = <<>> THEN pls
    ELSE writeGenreFiles(Tail(map),
            putFile(pls, <<"Genre_" \o cleanGenre(Head(map).genre), PRIMARY>>,
                    headerPlus(Head(map).tracks)))

generateGenrePlaylists(inv, pls) == writeGenreFiles(genreMapOf(<<>>, inv), pls)

\* Faulty variant of mergeInto: the file is replaced by the new lines.
mergeInto_replace(pls, name, tracks) ==
    putFile(pls, <<name, PRIMARY>>, headerPlus(uniq(<<>>, tracks)))

\* One custom playlist of appendCustomPlaylists: existing lines, then the new.
mergeInto(pls, name, tracks) ==
    LET key == <<name, PRIMARY>>
        existingLines == IF key \in DOMAIN pls THEN entryLines(pls[key]) ELSE <<>>
    IN  putFile(pls, key, headerPlus(uniq(<<>>, existingLines \o tracks)))

RECURSIVE appendCustomPlaylists(_, _)
appendCustomPlaylists(custom, pls) ==
    IF custom = <<>> THEN pls
    ELSE appendCustomPlaylists(Tail(custom),
            mergeInto(pls, Head(custom).name, Head(custom).tracks))

NoCall == [op |-> "none", name |-> "", track |-> <<>>, mode |-> "", result |-> "",
           SuccessCount |-> 0, FailCount |-> 0, removed |-> {}]

\* Faulty variant of loadInventory: library_db.json is never read.
loadInventory_empty(db, inv) == <<>>

\* 1. Load existing inventory: [] unless library_db.json exists.
loadInventory(db, inv) == IF db THEN inv ELSE <<>>

organize(results) ==
    LET inv0 == loadInventory(dbExists, inventory)
        st == organizeLoop(results,
                [inbox |-> inboxFiles, files |-> libFiles,
                 dirs |-> libDirs \cup ensureDir(playlistDir),
                 inv |-> inv0, custom |-> <<>>, failed |-> FALSE])
    IN  /\ inboxFiles' = st.inbox
        /\ libFiles' = st.files
        /\ libDirs' = st.dirs
        /\ UNCHANGED destFiles
        /\ IF st.failed
           THEN /\ UNCHANGED <<dbExists, inventory, playlists>>
                /\ last' = [NoCall EXCEPT !.op = "organize", !.result = "IOFailure"]
           ELSE /\ dbExists' = TRUE
                /\ inventory' = st.inv
                /\ playlists' =
                     appendCustomPlaylists(st.custom,
                        generateGenrePlaylists(st.inv,
                           generateMasterPlaylist(st.inv, playlists)))
                /\ last' = [NoCall EXCEPT !.op = "organize", !.result = "ok"]

\* One more request is served.
Served == calls < MaxCalls /\ calls' = calls + 1 /\ UNCHANGED <<scanned, procs>>

Organize ==
    /\ Served
    /\ \E results \in ProposalSeqs :
        /\ Len(inventory) + Len(results) <= MaxInv
        /\ organize(results)

\* ----------------------------------------------------------- playlist store
\* Faulty variant of includesMaster: the reserved-name guard never matches.
includesMaster_never(name) == FALSE

\* A custom name that holds the reserved name inside it.
OLD_MASTER == "Old_00_Master_Library"

\* name.includes("00_Master_Library") on the names of PlaylistNames and OLD_MASTER.
includesMaster(name) == name \in {MASTER, OLD_MASTER}

\* The Genre_ file names generateGenrePlaylists can write for this inbox.
GenreNames == {"Genre_" \o cleanGenre(g) :
                  g \in UNION {Range(p.metadata.genre) : p \in Proposals}}

\* file.startsWith("00_Master") || file.startsWith("Genre_")
isSystemName(name) == name = MASTER \/ name \in GenreNames

\* The playlist names a caller passes, and the track paths.
PlaylistNames == {"Favorites", "Workout", MASTER, "Genre_Rock"}
TrackPaths == {p.proposedPath : p \in scanned}

\* addToPlaylist(name, tracks, libraryPath); name.trim() is name for the
\* names of PlaylistNames.
addToPlaylist(name, tracks) ==
    LET key == <<name, PRIMARY>>
        existingLines == IF key \in DOMAIN playlists
                         THEN entryLines(playlists[key]) ELSE <<>>
        newRelativePaths == [i \in 1..Len(tracks) |-> relative(playlistDir, tracks[i])]
    IN  /\ libDirs' = libDirs \cup ensureDir(playlistDir)
        /\ playlists' = putFile(playlists, key,
                           headerPlus(uniq(<<>>, existingLines \o newRelativePaths)))
        /\ last' = [NoCall EXCEPT !.op = "addToPlaylist", !.name = name,
                                  !.track = tracks[1], !.result = "ok"]
        /\ UNCHANGED <<inboxFiles, libFiles, destFiles, dbExists, inventory>>

AddToPlaylist ==
    /\ Served
    /\ \E name \in PlaylistNames, t \in TrackPaths : addToPlaylist(name, <<t>>)

\* Faulty variant of withoutLine: the comparison inverted, the matching lines kept.
withoutLine_inverted(lines, target) == SelectSeq(lines, LAMBDA line : line = target)

\* The lines removeFromPlaylist keeps: those whose text is not the target's.
withoutLine(lines, target) == SelectSeq(lines, LAMBDA line : line # target)

removeFromPlaylist(name, trackPath) ==
    LET key == <<name, PRIMARY>>
        called == [NoCall EXCEPT !.op = "removeFromPlaylist", !.name = name,
                                 !.track = trackPath]
    IN  /\ UNCHANGED <<inboxFiles, libFiles, libDirs, destFiles, dbExists, inventory>>
        /\ IF includesMaster(name)
           THEN /\ last' = [called EXCEPT !.result = "ProtectedPlaylist"]
                /\ UNCHANGED playlists
           ELSE IF key \notin DOMAIN playlists
           THEN /\ last' = [called EXCEPT !.result = "NotFound"]
                /\ UNCHANGED playlists
           ELSE /\ playlists' = putFile(playlists, key,
                     headerPlus(withoutLine(entryLines(playlists[key]),
                                            relative(playlistDir, trackPath))))
                /\ last' = [called EXCEPT !.result = "ok"]

RemoveFromPlaylist ==
    /\ Served
    /\ \E name \in PlaylistNames, t \in TrackPaths : removeFromPlaylist(name, t)

\* Faulty variant of deletePlaylist: no file is removed.
deletePlaylist_keep(name, pls) == [pls |-> pls, result |-> "ok"]

\* Faulty variant of deletePlaylist: every custom playlist file is removed.
deletePlaylist_sweep(name, pls) ==
    [pls |-> [k \in {f \in DOMAIN pls : isSystemName(f[1])} |-> pls[k]],
     result |-> "ok"]

\* deletePlaylist on the playlist files pls: the files left and the outcome.
deletePlaylist(name, pls) ==
    IF includesMaster(name) THEN [pls |-> pls, result |-> "ProtectedPlaylist"]
    ELSE IF <<name, PRIMARY>> \in DOMAIN pls
    THEN [pls |-> removeFile(pls, <<name, PRIMARY>>), result |-> "ok"]
    ELSE IF <<name, LEGACY>> \in DOMAIN pls
    THEN [pls |-> removeFile(pls, <<name, LEGACY>>), result |-> "ok"]
    ELSE [pls |-> pls, result |-> "NotFound"]

DeletePlaylist ==
    /\ Served
    /\ \E name \in PlaylistNames :
        LET r == deletePlaylist(name, playlists)
        IN  /\ playlists' = r.pls
            /\ last' = [NoCall EXCEPT !.op = "deletePlaylist", !.name = name,
                                      !.result = r.result]
            /\ UNCHANGED <<inboxFiles, libFiles, libDirs, destFiles, dbExists,
                           inventory>>

\* path.parse(p).name and path.extname(p) of the file names of this library.
parseName(base) ==
    IF base = "01 - S.mp3" THEN "01 - S"
    ELSE IF base = "00 - song.mp3" THEN "00 - song"
    ELSE base
extname(base) == IF base \in {"01 - S.mp3", "00 - song.mp3"} THEN ".mp3" ELSE ""

\* Faulty variant of inventoryLookup: no record is ever found.
inventoryLookup_none(inv, absPath) == <<>>

\* inventoryMap.get(absPath): the last record set under that key.
inventoryLookup(inv, absPath) ==
    LET hits == {i \in 1..Len(inv) : inv[i].absPath = absPath}
    IN  IF hits = {} THEN <<>>
        ELSE <<inv[CHOOSE i \in hits : \A j \in hits : j <= i]>>

synthesized(absPath) ==
    [title |-> parseName(basename(absPath)), artist |-> "Unknown",
     album |-> "Unknown", year |-> 0, trackNo |-> "00", genre |-> <<>>,
     format |-> extname(basename(absPath)), absPath |-> absPath, relPath |-> <<>>]

\* getPlaylistDetails(name, libraryPath): found, and the tracks in file order.
getPlaylistDetails(name) ==
    LET key == IF <<name, PRIMARY>> \in DOMAIN playlists
               THEN <<name, PRIMARY>> ELSE <<name, LEGACY>>
        inv == IF dbExists THEN inventory ELSE <<>>
        lines == IF key \in DOMAIN playlists THEN entryLines(playlists[key]) ELSE <<>>
    IN  [found |-> key \in DOMAIN playlists,
         tracks |-> [i \in 1..Len(lines) |->
                       LET absPath == resolve(playlistDir, lines[i])
                           metadata == inventoryLookup(inv, absPath)
                       IN  IF metadata # <<>> THEN metadata[1]
                           ELSE synthesized(absPath)]]

\* listPlaylists(libraryPath) on the directories dirs and the playlist files
\* pls: the entries returned; their order is the order of fs.readdir.
listPlaylists(dirs, pls) ==
    IF playlistDir \notin dirs THEN {}
    ELSE {[name |-> k[1],
           count |-> Len(entryLines(pls[k])),
           path |-> playlistDir \o <<k[1] \o k[2]>>] :
             k \in {f \in DOMAIN pls : ~includesMaster(f[1])}}

\* getPlaylistsForTrack(trackPath, libraryPath): the names returned, each with
\* the number of times it is returned (once per file of that name that lists the
\* track); their order is the order of fs.readdir.
\* Here on the directories dirs and the playlist files pls.
getPlaylistsForTrack(trackPath, dirs, pls) ==
    IF playlistDir \notin dirs THEN << >>
    ELSE LET relPathToCheck == relative(playlistDir, trackPath)
             hits == {k \in DOMAIN pls :
                        /\ ~isSystemName(k[1])
                        /\ relPathToCheck \in Range(entryLines(pls[k]))}
         IN  [name \in {k[1] : k \in hits} |-> Cardinality({k \in hits : k[1] = name})]

\* ---------------------------------------------------------- export/transfer
\* Every regular file under the library root.
treeFiles(files, pls, db) ==
    files \cup {playlistDir \o <<k[1] \o k[2]>> : k \in DOMAIN pls}
          \cup (IF db THEN {libraryPath \o <<"library_db.json">>} ELSE {})

RECURSIVE cleanupEmptyDirs(_, _, _)
RECURSIVE cleanupEach(_, _, _)
\* Faulty variant of cleanupEmptyDirs: nothing is swept.
cleanupEmptyDirs_none(startDir, dirs, files) == dirs

\* cleanupEmptyDirs(startDir): the directories left after the sweep.
cleanupEmptyDirs(startDir, dirs, files) ==
    IF startDir \notin dirs THEN dirs
    ELSE LET swept == cleanupEach({d \in dirs : d # <<>> /\ dirname(d) = startDir},
                                  dirs, files)
             remainingFiles == {x \in swept \cup files :
                                  x # <<>> /\ dirname(x) = startDir}
         IN  IF remainingFiles = {} THEN swept \ {startDir} ELSE swept

cleanupEach(subdirs, dirs, files) ==
    IF subdirs = {} THEN dirs
    ELSE LET d == CHOOSE x \in subdirs : TRUE
         IN  cleanupEach(subdirs \ {d}, cleanupEmptyDirs(d, dirs, files), files)

\* Faulty variant of transferOne: a track whose source is missing is not counted.
transferOne_missingUncounted(st, track, mode, preserveStructure) ==
    LET destPath == IF preserveStructure /\ track.relPath # <<>>
                    THEN join(destination, track.relPath)
                    ELSE join(destination, <<basename(track.absPath)>>)
    IN  IF track.absPath \notin st.files
        THEN st
        ELSE IF mode = "copy"
        THEN [st EXCEPT !.dest = IF destPath \in DOMAIN @ THEN @
                                 ELSE putFile(@, destPath, track.absPath),
                        !.successCount = @ + 1]
        ELSE IF destPath \in DOMAIN st.dest
        THEN [st EXCEPT !.failCount = @ + 1]
        ELSE [st EXCEPT !.files = @ \ {track.absPath},
                        !.dest = putFile(@, destPath, track.absPath),
                        !.tracksToRemove = @ \cup {track.absPath},
                        !.successCount = @ + 1]

\* Faulty variant of transferOne: a copy takes the source file away.
transferOne_copyTakes(st, track, mode, preserveStructure) ==
    LET destPath == IF preserveStructure /\ track.relPath # <<>>
                    THEN join(destination, track.relPath)
                    ELSE join(destination, <<basename(track.absPath)>>)
    IN  IF track.absPath \notin st.files
        THEN [st EXCEPT !.failCount = @ + 1]
        ELSE IF destPath \in DOMAIN st.dest
        THEN [st EXCEPT !.failCount = @ + 1]
        ELSE [st EXCEPT !.files = @ \ {track.absPath},
                        !.dest = putFile(@, destPath, track.absPath),
                        !.tracksToRemove = IF mode = "move"
                                           THEN @ \cup {track.absPath} ELSE @,
                        !.successCount = @ + 1]

\* One track of the export loop on the loop state st.
\* fs.copy(src, dest, {overwrite: false}) leaves an existing dest as it is and
\* resolves; fs.move(src, dest, {overwrite: false}) rejects when dest exists.
transferOne(st, track, mode, preserveStructure) ==
    LET destPath == IF preserveStructure /\ track.relPath # <<>>
                    THEN join(destination, track.relPath)
                    ELSE join(destination, <<basename(track.absPath)>>)
    IN  IF track.absPath \notin st.files
        THEN [st EXCEPT !.failCount = @ + 1]
        ELSE IF mode = "copy"
        THEN [st EXCEPT !.dest = IF destPath \in DOMAIN @ THEN @
                                 ELSE putFile(@, destPath, track.absPath),
                        !.successCount = @ + 1]
        ELSE IF destPath \in DOMAIN st.dest
        THEN [st EXCEPT !.failCount = @ + 1]
        ELSE [st EXCEPT !.files = @ \ {track.absPath},
                        !.dest = putFile(@, destPath, track.absPath),
                        !.tracksToRemove = @ \cup {track.absPath},
                        !.successCount = @ + 1]

RECURSIVE transferLoop(_, _, _, _)
transferLoop(tracks, st, mode, preserveStructure) ==
    IF tracks = <<>> THEN st
    ELSE transferLoop(Tail(tracks),
                      transferOne(st, Head(tracks), mode, preserveStructure),
                      mode, preserveStructure)

\* Faulty variant of withoutTracks: every record is dropped.
withoutTracks_all(inv, tracksToRemove) == <<>>

\* Faulty variant of withoutTracks: the moved tracks stay in the inventory.
withoutTracks_keep(inv, tracksToRemove) == inv

\* inventory.filter(song => !tracksToRemove.has(song.absPath))
withoutTracks(inv, tracksToRemove) ==
    SelectSeq(inv, LAMBDA song : song.absPath \notin tracksToRemove)

exportPlaylist(name, mode, preserveStructure) ==
    LET called == [NoCall EXCEPT !.op = "exportPlaylist", !.name = name, !.mode = mode]
        details == getPlaylistDetails(name)
        st == transferLoop(details.tracks,
                 [files |-> libFiles, dest |-> destFiles, tracksToRemove |-> {},
                  successCount |-> 0, failCount |-> 0],
                 mode, preserveStructure)
        filtered == withoutTracks(inventory, st.tracksToRemove)
        resaved == dbExists /\ Len(filtered) # Len(inventory)
        regenerated == IF resaved
                       THEN generateGenrePlaylists(filtered,
                               generateMasterPlaylist(filtered, playlists))
                       ELSE playlists
        returned == [called EXCEPT !.result = "ok",
                                  !.SuccessCount = st.successCount,
                                  !.FailCount = st.failCount]
    IN  /\ UNCHANGED inboxFiles
        /\ IF includesMaster(name)
           THEN /\ last' = [called EXCEPT !.result = "ProtectedPlaylist"]
                /\ UNCHANGED <<libFiles, libDirs, destFiles, dbExists, inventory,
                               playlists>>
           ELSE IF ~details.found
           THEN /\ last' = [called EXCEPT !.result = "NotFound"]
                /\ UNCHANGED <<libFiles, libDirs, destFiles, dbExists, inventory,
                               playlists>>
           ELSE /\ libFiles' = st.files
                /\ destFiles' = st.dest
                /\ UNCHANGED dbExists
                /\ IF mode = "move" /\ st.tracksToRemove # {}
                   THEN /\ inventory' = IF resaved THEN filtered ELSE inventory
                        /\ playlists' = deletePlaylist(name, regenerated).pls
                        /\ libDirs' = cleanupEmptyDirs(libraryPath,
                               libDirs \cup (IF resaved THEN ensureDir(playlistDir) ELSE {}),
                               treeFiles(st.files, playlists', dbExists))
                        /\ last' = [returned EXCEPT
                               !.removed = IF resaved THEN st.tracksToRemove ELSE {}]
                   ELSE /\ UNCHANGED <<inventory, playlists, libDirs>>
                        /\ last' = returned

ExportPlaylist ==
    /\ Served
    /\ \E name \in PlaylistNames, mode \in {"copy", "move"}, preserveStructure \in BOOLEAN :
        exportPlaylist(name, mode, preserveStructure)

\* Faulty variant of rewriteWithout: the file is written back as it was read.
rewriteWithout_same(content, tracksToRemove) == content

\* One custom playlist file of exportLibrary's rewrite: header and blank lines
\* kept, the lines that resolve to a moved track dropped; "" when nothing is left.
rewriteWithout(content, tracksToRemove) ==
    LET updatedLines ==
            SelectSeq(content, LAMBDA line :
                startsWithHash(line) \/ line = <<>>
                \/ join(playlistDir, line) \notin tracksToRemove)
    IN  IF updatedLines = <<>> THEN <<<<>>>> ELSE updatedLines

rewriteCustomPlaylists(pls, tracksToRemove) ==
    [k \in DOMAIN pls |->
        IF isSystemName(k[1]) THEN pls[k] ELSE rewriteWithout(pls[k], tracksToRemove)]

exportLibrary(mode, preserveStructure) ==
    LET called == [NoCall EXCEPT !.op = "exportLibrary", !.mode = mode]
        st == transferLoop(inventory,
                 [files |-> libFiles, dest |-> destFiles, tracksToRemove |-> {},
                  successCount |-> 0, failCount |-> 0],
                 mode, preserveStructure)
        updatedInventory == withoutTracks(inventory, st.tracksToRemove)
        returned == [called EXCEPT !.result = "ok",
                                  !.SuccessCount = st.successCount,
                                  !.FailCount = st.failCount]
    IN  /\ UNCHANGED <<inboxFiles, dbExists>>
        /\ IF ~dbExists
           THEN /\ last' = [called EXCEPT !.result = "NotFound"]
                /\ UNCHANGED <<libFiles, libDirs, destFiles, inventory, playlists>>
           ELSE /\ libFiles' = st.files
                /\ destFiles' = st.dest
                /\ IF mode = "move" /\ st.tracksToRemove # {}
                   THEN /\ inventory' = updatedInventory
                        /\ playlists' = rewriteCustomPlaylists(
                               generateGenrePlaylists(updatedInventory,
                                  generateMasterPlaylist(updatedInventory, playlists)),
                               st.tracksToRemove)
                        /\ libDirs' = libDirs \cup ensureDir(playlistDir)
                        /\ last' = [returned EXCEPT !.removed = st.tracksToRemove]
                   ELSE /\ UNCHANGED <<inventory, playlists, libDirs>>
                        /\ last' = returned

ExportLibrary ==
    /\ Served
    /\ \E mode \in {"copy", "move"}, preserveStructure \in BOOLEAN :
        exportLibrary(mode, preserveStructure)

\* ------------------------------------------- organize, one await at a time
\* Two organize calls in flight on the same library root. Each call holds its
\* own inventory array and customPlaylists map between its awaits.
Procs == {1, 2}

Idle == [pc |-> "idle", results |-> <<>>, inv |-> <<>>, custom |-> <<>>,
         seen |-> 0, stale |-> FALSE]

\* The calls that have written library_db.json.
savesDone == Cardinality({q \in Procs : procs[q].pc \in {"master", "genre", "custom", "done"}})

\* Every array element a call in flight may still push.
pending == [q \in Procs |-> Len(procs[q].inv) + Len(procs[q].results)]

\* POST /organize arrives: ensureDir(libraryPath), ensureDir(playlistDir).
OrgStart(p) ==
    /\ procs[p].pc = "idle"
    /\ \E results \in ProposalSeqs :
        /\ Len(results) >= 1
        /\ \A q \in Procs \ {p} :
              Len(inventory) + Len(results) + pending[q] <= MaxInv
        /\ procs' = [procs EXCEPT ![p] = [Idle EXCEPT !.pc = "load", !.results = results]]
    /\ libDirs' = libDirs \cup ensureDir(playlistDir)
    /\ UNCHANGED <<inboxFiles, libFiles, destFiles, dbExists, inventory, playlists,
                   scanned, last, calls>>

\* inventory = await fs.readJson(dbPath)
OrgLoad(p) ==
    /\ procs[p].pc = "load"
    /\ procs' = [procs EXCEPT ![p].pc = "relocate",
                              ![p].inv = loadInventory(dbExists, inventory),
                              ![p].seen = savesDone]
    /\ UNCHANGED <<inboxFiles, libFiles, libDirs, destFiles, dbExists, inventory,
                   playlists, scanned, last, calls>>

\* Faulty variant of afterRelocate: the Inventory is written after the first item.
afterRelocate_early(failed, rest) == IF failed THEN "failed" ELSE "save"

\* Where a call stands after one turn of the loop: out when safeMove threw, in
\* the loop while items are left, at fs.outputJson after the last one.
afterRelocate(failed, rest) ==
    IF failed THEN "failed" ELSE IF rest = <<>> THEN "save" ELSE "relocate"

\* One turn of the loop: await safeMove, inventory.push, hints.
OrgRelocate(p) ==
    /\ procs[p].pc = "relocate"
    /\ LET st == organizeLoop(<<Head(procs[p].results)>>,
                    [inbox |-> inboxFiles, files |-> libFiles, dirs |-> libDirs,
                     inv |-> procs[p].inv, custom |-> procs[p].custom,
                     failed |-> FALSE])
           rest == Tail(procs[p].results)
       IN  /\ inboxFiles' = st.inbox
           /\ libFiles' = st.files
           /\ libDirs' = st.dirs
           /\ procs' = [procs EXCEPT
                          ![p].pc = afterRelocate(st.failed, rest),
                          ![p].results = rest,
                          ![p].inv = st.inv,
                          ![p].custom = st.custom]
    /\ UNCHANGED <<destFiles, dbExists, inventory, playlists, scanned, last, calls>>

\* await fs.outputJson(dbPath, inventory)
OrgSave(p) ==
    /\ procs[p].pc = "save"
    /\ dbExists' = TRUE
    /\ inventory' = procs[p].inv
    /\ procs' = [procs EXCEPT ![p].pc = "master",
                              ![p].stale = savesDone > procs[p].seen]
    /\ UNCHANGED <<inboxFiles, libFiles, libDirs, destFiles, playlists, scanned,
                   last, calls>>

\* await this.generateMasterPlaylist(inventory, libraryPath)
OrgMaster(p) ==
    /\ procs[p].pc = "master"
    /\ playlists' = generateMasterPlaylist(procs[p].inv, playlists)
    /\ procs' = [procs EXCEPT ![p].pc = "genre"]
    /\ UNCHANGED <<inboxFiles, libFiles, libDirs, destFiles, dbExists, inventory,
                   scanned, last, calls>>

\* await this.generateGenrePlaylists(inventory, libraryPath)
OrgGenre(p) ==
    /\ procs[p].pc = "genre"
    /\ playlists' = generateGenrePlaylists(procs[p].inv, playlists)
    /\ procs' = [procs EXCEPT ![p].pc = "custom"]
    /\ UNCHANGED <<inboxFiles, libFiles, libDirs, destFiles, dbExists, inventory,
                   scanned, last, calls>>

\* await this.appendCustomPlaylists(customPlaylists, playlistDir); the call returns.
OrgCustom(p) ==
    /\ procs[p].pc = "custom"
    /\ playlists' = appendCustomPlaylists(procs[p].custom, playlists)
    /\ procs' = [procs EXCEPT ![p].pc = "done"]
    /\ UNCHANGED <<inboxFiles, libFiles, libDirs, destFiles, dbExists, inventory,
                   scanned, last, calls>>

\* ------------------------------------------------------------------- Init
\* A library that does not exist yet, or one that already holds a playlist
\* with the legacy extension (written by the script this service replaces).
LegacyContent ==
    <<PLAYLIST_HEADER, <<"..", "B", "Unknown Album", "01 - S.mp3">>, <<>>>>

\* The inbox holds the three tagged files, or a.mp3 and the untagged song.mp3;
\* the client has scanned it.
TaggedInbox == {inboxPath \o <<"[Favorites][Workout]", "a.mp3">>,
                inboxPath \o <<"[00_Master_Library]", "b.mp3">>,
                inboxPath \o <<"c.mp3">>}
UntaggedInbox == {inboxPath \o <<"[Favorites][Workout]", "a.mp3">>,
                  inboxPath \o <<"song.mp3">>}

Init ==
    /\ libFiles = {}
    /\ destFiles = << >>
    /\ dbExists = FALSE
    /\ inventory = <<>>
    /\ \/ /\ inboxFiles = TaggedInbox
          /\ libDirs = {}
          /\ playlists = << >>
       \/ /\ inboxFiles = TaggedInbox
          /\ libDirs = ensureDir(playlistDir)
          /\ playlists = (<<"Workout", LEGACY>> :> LegacyContent)
       \/ /\ inboxFiles = UntaggedInbox
          /\ libDirs = {}
          /\ playlists = << >>
    /\ scanned = scanInbox(inboxFiles)
    /\ last = NoCall
    /\ calls = 0
    /\ procs = [p \in Procs |-> Idle]

Next ==
    \/ Organize
    \/ AddToPlaylist
    \/ RemoveFromPlaylist
    \/ DeletePlaylist
    \/ ExportPlaylist
    \/ ExportLibrary

Spec == Init /\ [][Next]_vars

\* Organize and export requests only.
NextOrgExport ==
    \/ Organize
    \/ ExportPlaylist
    \/ ExportLibrary

SpecOrgExport == Init /\ [][NextOrgExport]_vars

\* The mode field of an export request body as the router receives it: any
\* JSON string. "" is falsy; "link" is a string that is neither copy nor move.
RequestModes == {"copy", "move", "link", ""}

\* POST /playlists/:name/export with any mode: the router answers 400 when
\* !mode, and calls the service otherwise.
ExportPlaylistAnyMode ==
    /\ Served
    /\ \E name \in PlaylistNames, mode \in RequestModes, preserveStructure \in BOOLEAN :
        IF mode = ""
        THEN /\ last' = [NoCall EXCEPT !.op = "exportPlaylist", !.name = name,
                                       !.mode = mode, !.result = "InvalidRequest"]
             /\ UNCHANGED <<inboxFiles, libFiles, libDirs, destFiles, dbExists,
                            inventory, playlists>>
        ELSE exportPlaylist(name, mode, preserveStructure)

\* POST /library/export with any mode.
ExportLibraryAnyMode ==
    /\ Served
    /\ \E mode \in RequestModes, preserveStructure \in BOOLEAN :
        IF mode = ""
        THEN /\ last' = [NoCall EXCEPT !.op = "exportLibrary", !.mode = mode,
                                       !.result = "InvalidRequest"]
             /\ UNCHANGED <<inboxFiles, libFiles, libDirs, destFiles, dbExists,
                            inventory, playlists>>
        ELSE exportLibrary(mode, preserveStructure)

\* Organize and export requests, the exports with any mode.
NextAnyMode ==
    \/ Organize
    \/ ExportPlaylistAnyMode
    \/ ExportLibraryAnyMode

SpecAnyMode == Init /\ [][NextAnyMode]_vars

\* POST /playlists with any name a caller can type, OLD_MASTER among them.
AddToPlaylistAnyName ==
    /\ Served
    /\ \E name \in PlaylistNames \cup {OLD_MASTER}, t \in TrackPaths :
        addToPlaylist(name, <<t>>)

\* Organize, add with any name, delete.
NextAnyName ==
    \/ Organize
    \/ AddToPlaylistAnyName
    \/ DeletePlaylist

SpecAnyName == Init /\ [][NextAnyName]_vars

\* Two organize calls racing, each advancing from one await to the next.
NextConcurrent ==
    \E p \in Procs :
        \/ OrgStart(p)
        \/ OrgLoad(p)
        \/ OrgRelocate(p)
        \/ OrgSave(p)
        \/ OrgMaster(p)
        \/ OrgGenre(p)
        \/ OrgCustom(p)

SpecConcurrent == Init /\ [][NextConcurrent]_vars

\* ------------------------------------------------------------- properties
P1 == libraryPath \o <<"AC-DC", "X", "01 - S.mp3">>
P3 == libraryPath \o <<"B", "Unknown Album", "01 - S.mp3">>

FileOf(name) == <<name, PRIMARY>>
LegacyOf(name) == <<name, LEGACY>>

\* The entries of a playlist file, <<>> when the file does not exist.
EntriesOf(pls, key) == IF key \in DOMAIN pls THEN entryLines(pls[key]) ELSE <<>>

\* A playlist file as a sequence of at most one content.
ContentOf(pls, key) == IF key \in DOMAIN pls THEN <<pls[key]>> ELSE <<>>

Count(seq, x) == Cardinality({i \in 1..Len(seq) : seq[i] = x})

Completed == last.result = "ok"
MoveExported ==
    last.op \in {"exportPlaylist", "exportLibrary"} /\ last.mode = "move" /\ Completed

\* C1: after organize/exportPlaylist/exportLibrary requests the Master playlist
\* has as many entries as the Inventory, and each absolute path is resolved by
\* as many Master entries as there are Inventory records with that absPath.
C1_MasterBijection ==
    LET master == EntriesOf(playlists, FileOf(MASTER))
        resolved == [i \in 1..Len(master) |-> resolve(playlistDir, master[i])]
        paths == [i \in 1..Len(inventory) |-> inventory[i].absPath]
    IN  /\ Len(master) = Len(inventory)
        /\ \A p \in Range(resolved) \cup Range(paths) : Count(resolved, p) = Count(paths, p)

\* C2: every record of the persisted Inventory has a file on disk at its absPath.
C2_InventoryFilesExist ==
    \A i \in 1..Len(inventory) : inventory[i].absPath \in libFiles

\* C2 witness: a move export took tracks out and records are left in the Inventory.
C2_Witness ==
    /\ MoveExported
    /\ last.removed # {}
    /\ Len(inventory) > 0

\* C3: no two Inventory records have the same absPath.
C3_UniqueAbsPath ==
    \A i, j \in 1..Len(inventory) :
        i # j => inventory[i].absPath # inventory[j].absPath

GenreFileHas(g, absPath) ==
    relative(playlistDir, absPath)
        \in Range(EntriesOf(playlists, FileOf("Genre_" \o cleanGenre(g))))

\* C4: after a completed organize or move export, the Genre playlist file of
\* every genre of every Inventory record holds the record's playlist-relative path.
C4_GenreComplete ==
    ((last.op = "organize" /\ Completed) \/ MoveExported) =>
        \A i \in 1..Len(inventory) :
            \A g \in Range(inventory[i].genre) :
                GenreFileHas(g, inventory[i].absPath)

\* C5: after a move export took a track out of the Inventory, no Genre playlist
\* file holds the track's path.
C5_NoStaleGenreEntry ==
    MoveExported =>
        \A p \in last.removed :
            \A k \in DOMAIN playlists :
                k[1] \in GenreNames =>
                    relative(playlistDir, p) \notin Range(entryLines(playlists[k]))

\* C6: removeFromPlaylist, deletePlaylist and exportPlaylist on 00_Master_Library
\* fail with the protected-playlist error and change no file, no directory, no
\* Inventory record and no playlist file.
C6_ProtectedMaster ==
    [][(/\ calls' # calls
        /\ last'.op \in {"removeFromPlaylist", "deletePlaylist", "exportPlaylist"}
        /\ last'.name = MASTER)
       => /\ last'.result = "ProtectedPlaylist"
          /\ UNCHANGED <<inboxFiles, libFiles, libDirs, destFiles, dbExists,
                         inventory, playlists>>]_vars

\* C6 witness: deletePlaylist on the Master name was refused while the Master
\* file and Inventory records exist.
C6_Witness ==
    /\ last.op = "deletePlaylist"
    /\ last.name = MASTER
    /\ last.result = "ProtectedPlaylist"
    /\ FileOf(MASTER) \in DOMAIN playlists
    /\ Len(inventory) > 0

\* C7: addToPlaylist with the Master name never changes the Master playlist file.
C7_AddNeverChangesMaster ==
    [][(calls' # calls /\ last'.op = "addToPlaylist" /\ last'.name = MASTER)
       => ContentOf(playlists', FileOf(MASTER)) = ContentOf(playlists, FileOf(MASTER))]_vars

\* C8: every entry of a custom playlist file before an organize run is an entry
\* of that file after it.
C8_OrganizeKeepsCustomEntries ==
    [][(calls' # calls /\ last'.op = "organize")
       => \A k \in DOMAIN playlists :
            ~isSystemName(k[1]) =>
                /\ k \in DOMAIN playlists'
                /\ Range(entryLines(playlists[k])) \subseteq Range(EntriesOf(playlists', k))]_vars

\* C8 witness: an organize run merged its hint for Favorites into a file that
\* already held the hand-added P3.
C8_Witness ==
    /\ last.op = "organize"
    /\ Completed
    /\ EntriesOf(playlists, FileOf("Favorites"))
         = <<relative(playlistDir, P3), relative(playlistDir, P1)>>

RECURSIVE normalizeEol(_)
\* A file's lines without the empty lines at its end.
normalizeEol(content) ==
    IF content # <<>> /\ content[Len(content)] = <<>>
    THEN normalizeEol(SubSeq(content, 1, Len(content) - 1))
    ELSE content

\* C9: removeFromPlaylist of a track that is no line of the playlist's file
\* succeeds and leaves every playlist file as it was, up to the line ending of the
\* file; and a second removeFromPlaylist of the same track changes no playlist file.
C9_RemovalIdempotent ==
    [][(calls' # calls /\ last'.op = "removeFromPlaylist")
       => LET k == FileOf(last'.name)
              target == relative(playlistDir, last'.track)
          IN  /\ (/\ ~includesMaster(last'.name)
                  /\ k \in DOMAIN playlists
                  /\ target \notin Range(entryLines(playlists[k])))
                 => /\ last'.result = "ok"
                    /\ DOMAIN playlists' = DOMAIN playlists
                    /\ normalizeEol(playlists'[k]) = normalizeEol(playlists[k])
                    /\ \A f \in DOMAIN playlists \ {k} : playlists'[f] = playlists[f]
              /\ (/\ last'.result = "ok"
                  /\ last.op = "removeFromPlaylist"
                  /\ last.result = "ok"
                  /\ last.name = last'.name
                  /\ last.track = last'.track)
                 => playlists' = playlists]_vars

\* C9 witness: the second request removed P3 from Favorites, which held only P1.
C9_Witness ==
    /\ calls = 2
    /\ last.op = "removeFromPlaylist"
    /\ last.name = "Favorites"
    /\ last.track = P3
    /\ Completed
    /\ EntriesOf(playlists, FileOf("Favorites")) = <<relative(playlistDir, P1)>>

\* C10: removeFromPlaylist on a playlist that has a .m3u file and no .m3u8 file
\* does not fail with NotFound and rewrites the .m3u file without the track's line.
C10_LegacyFallback ==
    [][(/\ calls' # calls
        /\ last'.op = "removeFromPlaylist"
        /\ ~includesMaster(last'.name)
        /\ FileOf(last'.name) \notin DOMAIN playlists
        /\ LegacyOf(last'.name) \in DOMAIN playlists)
       => /\ last'.result = "ok"
          /\ LegacyOf(last'.name) \in DOMAIN playlists'
          /\ relative(playlistDir, last'.track)
               \notin Range(EntriesOf(playlists', LegacyOf(last'.name)))]_vars

P4 == libraryPath \o <<"Unknown Artist", "Unknown Album", "00 - song.mp3">>

\* C11: an exportPlaylist or exportLibrary request with mode copy changes no
\* Inventory record, no playlist file and no file or directory of the library;
\* and exportPlaylist in copy mode of a playlist whose n tracks exist and have
\* distinct basenames, to an empty destination, returns SuccessCount = n and
\* FailCount = 0.
C11_CopyFrame ==
    [][(/\ calls' # calls
        /\ last'.op \in {"exportPlaylist", "exportLibrary"}
        /\ last'.mode = "copy")
       => /\ UNCHANGED <<inboxFiles, libFiles, libDirs, dbExists, inventory, playlists>>
          /\ LET tracks == getPlaylistDetails(last'.name).tracks
             IN  (/\ last'.op = "exportPlaylist"
                  /\ last'.result = "ok"
                  /\ DOMAIN destFiles = {}
                  /\ \A i \in 1..Len(tracks) : tracks[i].absPath \in libFiles
                  /\ \A i, j \in 1..Len(tracks) :
                        i # j => basename(tracks[i].absPath) # basename(tracks[j].absPath))
                 => /\ last'.SuccessCount = Len(tracks)
                    /\ last'.FailCount = 0]_vars

\* C11 witness: a copy of a playlist of two tracks with distinct basenames put
\* both files in the destination and left both records in the Inventory.
C11_Witness ==
    /\ last.op = "exportPlaylist"
    /\ last.mode = "copy"
    /\ Completed
    /\ last.SuccessCount = 2
    /\ last.FailCount = 0
    /\ DOMAIN destFiles = {destination \o <<"01 - S.mp3">>,
                           destination \o <<"00 - song.mp3">>}
    /\ {P1, P4} \subseteq libFiles
    /\ Len(inventory) = 2

\* C12: in a copy-mode export a track whose destination path already exists
\* leaves the existing destination file as it is and is counted in FailCount:
\* SuccessCount is the number of files the export added to the destination.
C12_CopyCollisionFails ==
    [][(/\ calls' # calls
        /\ last'.op \in {"exportPlaylist", "exportLibrary"}
        /\ last'.mode = "copy"
        /\ last'.result = "ok")
       => /\ \A p \in DOMAIN destFiles :
                p \in DOMAIN destFiles' /\ destFiles'[p] = destFiles[p]
          /\ last'.SuccessCount = Cardinality(DOMAIN destFiles' \ DOMAIN destFiles)]_vars

\* The playlist file getPlaylistDetails reads for a name: primary extension
\* first, then legacy.
BackingOf(pls, name) ==
    IF FileOf(name) \in DOMAIN pls THEN FileOf(name) ELSE LegacyOf(name)

\* The directories of the library that hold no file and no directory.
EmptyDirs(dirs, files) ==
    {d \in dirs : ~\E x \in dirs \cup files : x # <<>> /\ dirname(x) = d}

\* C13: after exportPlaylist in move mode that moved every track of the playlist
\* (at least one, none failed), the file that backed the playlist is gone, no
\* Inventory record has the absPath of a track of the playlist, and no directory
\* of the library tree is empty.
C13_MoveExportCleans ==
    [][(/\ calls' # calls
        /\ last'.op = "exportPlaylist"
        /\ last'.mode = "move"
        /\ last'.result = "ok"
        /\ last'.SuccessCount >= 1
        /\ last'.FailCount = 0)
       => LET tracks == getPlaylistDetails(last'.name).tracks
          IN  /\ BackingOf(playlists, last'.name) \notin DOMAIN playlists'
              /\ \A i \in 1..Len(tracks) : \A j \in 1..Len(inventory') :
                    inventory'[j].absPath # tracks[i].absPath
              /\ EmptyDirs(libDirs', treeFiles(libFiles', playlists', dbExists')) = {}]_vars

\* C13 witness: Favorites, holding P1 only, was exported in move mode; the
\* directories of P1 are gone, those of P3 are left.
C13_Witness ==
    /\ last.op = "exportPlaylist"
    /\ last.name = "Favorites"
    /\ last.mode = "move"
    /\ Completed
    /\ last.SuccessCount = 1
    /\ last.FailCount = 0
    /\ last.removed = {P1}
    /\ FileOf("Favorites") \notin DOMAIN playlists
    /\ libraryPath \o <<"AC-DC">> \notin libDirs
    /\ libraryPath \o <<"B", "Unknown Album">> \in libDirs
    /\ Len(inventory) = 1

\* C14: after exportLibrary in move mode, every custom playlist file (neither
\* Master nor Genre) holds, in order, exactly those of its former entries that
\* do not resolve to a file the export moved out of the library.
C14_LibraryMoveRewritesCustom ==
    [][(/\ calls' # calls
        /\ last'.op = "exportLibrary"
        /\ last'.mode = "move"
        /\ last'.result = "ok")
       => \A k \in DOMAIN playlists :
            ~isSystemName(k[1]) =>
                /\ k \in DOMAIN playlists'
                /\ entryLines(playlists'[k])
                     = SelectSeq(entryLines(playlists[k]),
                                 LAMBDA line : resolve(playlistDir, line)
                                                  \notin (libFiles \ libFiles'))]_vars

\* C14 witness: exportLibrary moved P1 out and could not move P3; Favorites,
\* which held both, holds P3 only.
C14_Witness ==
    /\ last.op = "exportLibrary"
    /\ last.mode = "move"
    /\ Completed
    /\ last.removed = {P1}
    /\ P3 \in libFiles
    /\ EntriesOf(playlists, FileOf("Favorites")) = <<relative(playlistDir, P3)>>

\* C15: after a move-mode exportPlaylist or exportLibrary that moved at least
\* one track, every directory of the library that is empty was already empty
\* before the export: none is left empty by the moved files.
C15_MoveSweepsTree ==
    [][(/\ calls' # calls
        /\ last'.op \in {"exportPlaylist", "exportLibrary"}
        /\ last'.mode = "move"
        /\ last'.result = "ok"
        /\ libFiles' # libFiles)
       => EmptyDirs(libDirs', treeFiles(libFiles', playlists', dbExists'))
            \subseteq EmptyDirs(libDirs, treeFiles(libFiles, playlists, dbExists))]_vars

\* C16: an organize request is not aborted by the failure of one relocation:
\* it completes, and every file it relocated into the library has a record in
\* the persisted Inventory and an entry in the Master playlist.
C16_OrganizeContinues ==
    [][(calls' # calls /\ last'.op = "organize")
       => /\ last'.result = "ok"
          /\ \A f \in libFiles' \ libFiles :
                /\ dbExists'
                /\ \E i \in 1..Len(inventory') : inventory'[i].absPath = f
                /\ relative(playlistDir, f)
                     \in Range(EntriesOf(playlists', FileOf(MASTER)))]_vars

\* C17: an export whose track set could be read (the playlist exists and is not
\* Master; library_db.json exists) returns, in either mode, with SuccessCount +
\* FailCount equal to the number of tracks of the set, and FailCount counts at
\* least every track whose source file is missing.
C17_TransferCountsAll ==
    [][(/\ calls' # calls
        /\ last'.op \in {"exportPlaylist", "exportLibrary"})
       => LET byName == last'.op = "exportPlaylist"
              details == getPlaylistDetails(last'.name)
              tracks == IF byName THEN details.tracks ELSE inventory
              readable == IF byName
                          THEN ~includesMaster(last'.name) /\ details.found
                          ELSE dbExists
          IN  readable =>
                /\ last'.result = "ok"
                /\ last'.SuccessCount + last'.FailCount = Len(tracks)
                /\ last'.FailCount >=
                     Cardinality({i \in 1..Len(tracks) : tracks[i].absPath \notin libFiles})]_vars

\* C17 witness: a copy of Favorites, which lists P1 and a P3 that is not in the
\* library, returned one success and one failure.
C17_Witness ==
    /\ last.op = "exportPlaylist"
    /\ last.name = "Favorites"
    /\ last.mode = "copy"
    /\ Completed
    /\ last.SuccessCount = 1
    /\ last.FailCount = 1
    /\ P1 \in libFiles
    /\ P3 \notin libFiles
    /\ Range(EntriesOf(playlists, FileOf("Favorites")))
         = {relative(playlistDir, P1), relative(playlistDir, P3)}

\* The inbox files an organize step took out of the inbox.
Relocated(before, after) == {src \in InboxCatalogue : src.file \in before \ after}

C19_MasterRoundTrip ==
    (calls = 1 /\ last.op = "organize" /\ Completed /\ Len(inventory) = 1)
       => LET details == getPlaylistDetails(MASTER)
          IN  /\ details.found
              /\ details.tracks = <<inventory[1]>>
              /\ \E item \in scanned :
                    /\ item.proposedPath = details.tracks[1].absPath
                    /\ item.metadata.title = details.tracks[1].title
                    /\ item.metadata.artist = details.tracks[1].artist
              /\ details.tracks[1] # synthesized(details.tracks[1].absPath)

\* C19 witness: the untagged song.mp3 was organized first; Master gives its
\* record with the default title and artist.
C19_Witness ==
    /\ calls = 1
    /\ last.op = "organize"
    /\ Completed
    /\ libFiles = {P4}
    /\ getPlaylistDetails(MASTER).tracks
         = <<[title |-> "song", artist |-> "Unknown Artist", album |-> "Unknown Album",
              year |-> 0, trackNo |-> "00", genre |-> <<"Otros">>, format |-> ".mp3",
              absPath |-> P4,
              relPath |-> <<"Unknown Artist", "Unknown Album", "00 - song.mp3">>]>>

\* Both organize calls have returned.
BothDone == \A p \in Procs : procs[p].pc = "done"

\* A file of the library that has no record in the persisted Inventory.
LostUpdate ==
    \E f \in libFiles : \A i \in 1..Len(inventory) : inventory[i].absPath # f

\* C20: two organize calls on the same library root can lose an Inventory
\* update, and only by interleaving: when both have returned and a relocated
\* file has no record in the persisted Inventory, one of the calls wrote
\* library_db.json after the other had written it since its own read.
C20_LostUpdateOnlyByInterleaving ==
    (BothDone /\ LostUpdate) => \E p \in Procs : procs[p].stale

\* C20 witness: both calls returned, each relocated a file, and one of the two
\* files is on disk in the library without a record in the persisted Inventory.
C20_Witness ==
    /\ BothDone
    /\ Cardinality(libFiles) = 2
    /\ Len(inventory) = 1
    /\ LostUpdate

\* C21: an export request whose mode is neither copy nor move is rejected (it
\* does not complete); it copies and moves no file and changes neither the
\* Inventory nor a playlist file.
C21_InvalidModeRejected ==
    [][(/\ calls' # calls
        /\ last'.op \in {"exportPlaylist", "exportLibrary"}
        /\ last'.mode \notin {"copy", "move"})
       => /\ last'.result # "ok"
          /\ UNCHANGED <<libFiles, libDirs, destFiles, dbExists, inventory, playlists>>]_vars

\* C22: addToPlaylist, removeFromPlaylist and deletePlaylist never create,
\* change or delete a Genre_ playlist file.
C22_UserOpsKeepGenreFiles ==
    [][(/\ calls' # calls
        /\ last'.op \in {"addToPlaylist", "removeFromPlaylist", "deletePlaylist"})
       => \A g \in GenreNames : \A ext \in {PRIMARY, LEGACY} :
            ContentOf(playlists', <<g, ext>>) = ContentOf(playlists, <<g, ext>>)]_vars

\* The number of lines of a file that are neither empty nor #-prefixed.
TrackLines(content) ==
    Cardinality({i \in 1..Len(content) :
                    content[i] # <<>> /\ content[i][1] # "#EXTM3U"})

\* C23: listPlaylists returns exactly one entry for every .m3u8 or .m3u file of
\* the playlist directory whose name is not the Master name, none for the Master
\* file, and each entry's count is the number of non-empty, non-# lines.
C23_ListAllButMaster ==
    LET listed == listPlaylists(libDirs, playlists)
        files == {k \in DOMAIN playlists : k[1] # MASTER}
    IN  /\ Cardinality(listed) = Cardinality(files)
        /\ \A k \in files :
              \E e \in listed :
                 /\ e.name = k[1]
                 /\ e.path = playlistDir \o <<k[1] \o k[2]>>
                 /\ e.count = TrackLines(playlists[k])
        /\ \A e \in listed : e.name # MASTER

\* The organize call p takes the step.
Steps(p) == procs'[p] # procs[p]

\* C24: within one organize run, library_db.json is written only when every
\* proposal of the run has been relocated, files are relocated only before that
\* write, and the playlist files are written only after it.
C24_OrganizeStepOrder ==
    [][\A p \in Procs :
         Steps(p) =>
            /\ (dbExists' # dbExists \/ inventory' # inventory)
                  => procs[p].pc = "save" /\ procs[p].results = <<>>
            /\ (libFiles' # libFiles) => procs[p].pc = "relocate"
            /\ (playlists' # playlists)
                  => procs[p].pc \in {"master", "genre", "custom"}]_vars

\* C24 witness: one organize call has relocated its files and stands before the
\* write of library_db.json; stopped here, a file is in the library without a
\* record in the persisted Inventory.
C24_Witness ==
    /\ procs[1].pc = "save"
    /\ procs[2].pc = "idle"
    /\ Cardinality(libFiles) = 2
    /\ ~dbExists
    /\ inventory = <<>>
    /\ LostUpdate

\* C25: for every playlist that has a file, getPlaylistDetails succeeds and
\* returns one Track per non-empty, non-# line of the file it reads, in file
\* order: an Inventory record whose absPath is the line's resolved path when
\* there is one, otherwise the Track made from the path (file name without
\* extension as title, artist and album Unknown, no genre, no relPath).
C25_DetailsPerLine ==
    \A name \in PlaylistNames :
        (FileOf(name) \in DOMAIN playlists \/ LegacyOf(name) \in DOMAIN playlists)
        => LET details == getPlaylistDetails(name)
               content == playlists[BackingOf(playlists, name)]
               lines == SelectSeq(content,
                           LAMBDA l : l # <<>> /\ l[1] # "#EXTM3U")
           IN  /\ details.found
               /\ Len(details.tracks) = Len(lines)
               /\ \A i \in 1..Len(lines) :
                     LET abs == resolve(playlistDir, lines[i])
                         t == details.tracks[i]
                         known == dbExists /\ \E j \in 1..Len(inventory) :
                                                inventory[j].absPath = abs
                     IN  /\ t.absPath = abs
                         /\ known => \E j \in 1..Len(inventory) : t = inventory[j]
                         /\ ~known =>
                               /\ t.title = parseName(basename(abs))
                               /\ t.artist = "Unknown"
                               /\ t.album = "Unknown"
                               /\ t.genre = <<>>
                               /\ t.relPath = <<>>

\* C25 witness: Favorites lists P3, which has no Inventory record, and then P1,
\* which has one: the first Track is made from the path, the second is the record.
C25_Witness ==
    /\ EntriesOf(playlists, FileOf("Favorites"))
         = <<relative(playlistDir, P3), relative(playlistDir, P1)>>
    /\ Len(inventory) = 1
    /\ inventory[1].absPath = P1
    /\ getPlaylistDetails("Favorites").tracks
         = <<[title |-> "01 - S", artist |-> "Unknown", album |-> "Unknown",
              year |-> 0, trackNo |-> "00", genre |-> <<>>, format |-> ".mp3",
              absPath |-> P3, relPath |-> <<>>],
             inventory[1]>>

\* C26: a move-mode export takes out of the Inventory exactly the records whose
\* file it moved out of the library; a record whose file was not moved keeps
\* its place in the Inventory, its file stays where it was, and the Master
\* playlist lists it.
C26_MoveRemovesExactlyMoved ==
    [][(/\ calls' # calls
        /\ last'.op \in {"exportPlaylist", "exportLibrary"}
        /\ last'.mode = "move"
        /\ last'.result = "ok")
       => LET moved == libFiles \ libFiles'
          IN  /\ inventory' = SelectSeq(inventory, LAMBDA song : song.absPath \notin moved)
              /\ libFiles' \subseteq libFiles
              /\ \A i \in 1..Len(inventory') :
                    relative(playlistDir, inventory'[i].absPath)
                       \in Range(EntriesOf(playlists', FileOf(MASTER)))]_vars

\* C26 witness: exportLibrary in move mode moved P1 and failed on P3, whose
\* destination was taken; P3 is in the library, in the Inventory and in Master.
C26_Witness ==
    /\ last.op = "exportLibrary"
    /\ last.mode = "move"
    /\ Completed
    /\ last.SuccessCount = 1
    /\ last.FailCount = 1
    /\ last.removed = {P1}
    /\ libFiles = {P3}
    /\ Len(inventory) = 1
    /\ inventory[1].absPath = P3
    /\ EntriesOf(playlists, FileOf(MASTER)) = <<relative(playlistDir, P3)>>

\* C27: exportPlaylist in move mode leaves every custom playlist file other than
\* those of the exported name as it was, lines that point at moved tracks included.
C27_MoveExportKeepsOtherCustom ==
    [][(/\ calls' # calls
        /\ last'.op = "exportPlaylist"
        /\ last'.mode = "move"
        /\ last'.result = "ok")
       => \A k \in DOMAIN playlists :
            (~isSystemName(k[1]) /\ k[1] # last'.name)
               => k \in DOMAIN playlists' /\ playlists'[k] = playlists[k]]_vars

\* C27 witness: Favorites was exported in move mode and took P1 out of the
\* library; Workout still lists P1.
C27_Witness ==
    /\ last.op = "exportPlaylist"
    /\ last.name = "Favorites"
    /\ last.mode = "move"
    /\ Completed
    /\ last.removed = {P1}
    /\ P1 \notin libFiles
    /\ EntriesOf(playlists, FileOf("Workout")) = <<relative(playlistDir, P1)>>

\* C28: exportPlaylist in move mode removes the file that backs the exported
\* playlist when it moved at least one track, whether or not other tracks
\* failed, and leaves every playlist file as it was when it moved none.
C28_DeletedIffMoved ==
    [][(/\ calls' # calls
        /\ last'.op = "exportPlaylist"
        /\ last'.mode = "move"
        /\ last'.result = "ok")
       => IF libFiles' # libFiles
          THEN BackingOf(playlists, last'.name) \notin DOMAIN playlists'
          ELSE playlists' = playlists]_vars

\* C28 witness: Favorites listed P1 and P3; the move export moved P1, failed on
\* P3, and the file of Favorites is gone.
C28_Witness ==
    /\ last.op = "exportPlaylist"
    /\ last.name = "Favorites"
    /\ last.mode = "move"
    /\ Completed
    /\ last.SuccessCount = 1
    /\ last.FailCount = 1
    /\ P3 \in libFiles
    /\ FileOf("Favorites") \notin DOMAIN playlists

\* C29: after a deletePlaylist that succeeded, getPlaylistDetails of the name
\* finds no playlist and listPlaylists has no entry of that name.
C29_DeletedIsAbsent ==
    (last.op = "deletePlaylist" /\ Completed)
       => /\ ~getPlaylistDetails(last.name).found
          /\ \A e \in listPlaylists(libDirs, playlists) : e.name # last.name

\* Playlist exports served while one organize call is between two of its
\* awaits: the router starts each handler as its request arrives, and a handler
\* that awaits file I/O yields to the others.
NextInFlight ==
    \/ OrgStart(1)
    \/ OrgLoad(1)
    \/ OrgRelocate(1)
    \/ OrgSave(1)
    \/ OrgMaster(1)
    \/ OrgGenre(1)
    \/ OrgCustom(1)
    \/ ExportPlaylist

SpecInFlight == Init /\ [][NextInFlight]_vars

\* C30: an exportPlaylist in move mode leaves the library root directory and
\* its Playlists directory in place: each of them that existed before the call
\* exists after it.
C30_SweepKeepsRootAndPlaylists ==
    [][(/\ calls' # calls
        /\ last'.op = "exportPlaylist"
        /\ last'.mode = "move")
       => /\ (libraryPath \in libDirs => libraryPath \in libDirs')
          /\ (playlistDir \in libDirs => playlistDir \in libDirs')]_vars
====
